---- MODULE Spec2Model ----
(***************************************************************************)
(* Model of julpo99/Deribit.                                               *)
(*   task1: option mark prices from the order book (compute_mid_price,     *)
(*          get_call_put_instruments, the evaluation cycle of main).       *)
(*   task2: settlement reconciliation (merge_data, estimate_price_*,       *)
(*          run_analysis).                                                 *)
(* Python's None is the empty sequence <<>>; a present value v is <<v>>.   *)
(* Order-book prices are integers in half ticks (exchange prices are whole *)
(* ticks, hence even), so the mean of two prices is exact.                 *)
(***************************************************************************)
EXTENDS Integers, Sequences, FiniteSets, TLC

VARIABLES
    mid_pc, order_book, mid_result,
    match_pc, m_instruments, m_strike, m_result,
    pc, instruments, strikes, black76, cycle, si, side, matched, output,
    saved, sent, response, book, fetched_ticker, computed_mark, entry, testnet,
    run_pc, testnet_data, mainnet_data, method, supplement_paxg,
    supplement_paxg_from_testnet, df_test, df_main, result_test, result_main,
    best, files, raised,
    b76_pc, b76_ticker, b76_inst, b76_result,
    g_pc, c_pc, msg_ids, pending, responses, received, collected, gathered

midVars == <<mid_pc, order_book, mid_result>>
matchVars == <<match_pc, m_instruments, m_strike, m_result>>
mainVars ==
    <<pc, instruments, strikes, black76, cycle, si, side, matched, output,
      saved, sent, response, book, fetched_ticker, computed_mark, entry, testnet>>
runVars ==
    <<run_pc, testnet_data, mainnet_data, method, supplement_paxg,
      supplement_paxg_from_testnet, df_test, df_main, result_test, result_main,
      best, files, raised>>
b76Vars == <<b76_pc, b76_ticker, b76_inst, b76_result>>
gatherVars ==
    <<g_pc, c_pc, msg_ids, pending, responses, received, collected, gathered>>
laterVars == <<b76Vars, gatherVars>>
vars == <<midVars, matchVars, mainVars, runVars, laterVars>>

None == <<>>
Some(v) == <<v>>
Abs(x) == IF x < 0 THEN -x ELSE x

-----------------------------------------------------------------------------
(* Bounds of the model.                                                    *)
MaxTick == 2
MaxInst == 3
MaxStrike == 3
MaxTargets == 2
MaxCatalogueStrike == 1
MaxCycles == 1
MaxRecords == 6
MaxRunTs == 2
MaxB76 == 1
MaxTracked == 2

-----------------------------------------------------------------------------
(* task1/mark_price_calculator.py                                          *)

BookFields ==
    {"best_bid_price", "best_ask_price", "last_price", "settlement_price",
     "min_price", "max_price"}

\* Prices a field can carry: negative, zero and positive whole ticks.
TickPrices == {2 * k : k \in -1..MaxTick}
OptPrices == {None} \cup {Some(p) : p \in TickPrices}

\* Python truthiness of an optional number: None and 0 are falsy.
Truthy(x) == x # None /\ x[1] # 0

\* The mutant tests last_price by truthiness, as bid and ask are tested.
compute_mid_price_last_truthy(snapshot) ==
    LET bid == snapshot.best_bid_price
        ask == snapshot.best_ask_price
        last == snapshot.last_price
        settlement == snapshot.settlement_price
        min == snapshot.min_price
        max == snapshot.max_price
    IN  IF Truthy(bid) /\ Truthy(ask) /\ bid[1] > 0 /\ ask[1] > 0
          THEN Some((bid[1] + ask[1]) \div 2)
        ELSE IF Truthy(bid) /\ bid[1] > 0 THEN bid
        ELSE IF Truthy(ask) /\ ask[1] > 0 THEN ask
        ELSE IF Truthy(last) THEN last
        ELSE IF settlement # None THEN settlement
        ELSE IF min # None /\ max # None /\ min[1] > 0 /\ max[1] > 0
          THEN Some((min[1] + max[1]) \div 2)
        ELSE None

compute_mid_price(snapshot) ==
    LET bid == snapshot.best_bid_price
        ask == snapshot.best_ask_price
        last == snapshot.last_price
        settlement == snapshot.settlement_price
        min == snapshot.min_price
        max == snapshot.max_price
    IN  IF Truthy(bid) /\ Truthy(ask) /\ bid[1] > 0 /\ ask[1] > 0
          THEN Some((bid[1] + ask[1]) \div 2)
        ELSE IF Truthy(bid) /\ bid[1] > 0 THEN bid
        ELSE IF Truthy(ask) /\ ask[1] > 0 THEN ask
        ELSE IF last # None THEN last
        ELSE IF settlement # None THEN settlement
        ELSE IF min # None /\ max # None /\ min[1] > 0 /\ max[1] > 0
          THEN Some((min[1] + max[1]) \div 2)
        ELSE None

-----------------------------------------------------------------------------
(* task1/client.py: DeribitClient.get_call_put_instruments                 *)

\* What inst.get("strike", -1) finds: a number, no key at all, the value
\* None, or a text float() rejects.
StrikeKinds == {"float", "absent", "null", "text"}
Strike(kind, val) == [kind |-> kind, val |-> val]
StrikeValues ==
    {Strike("float", v) : v \in 1..MaxStrike}
        \cup {Strike("absent", 0), Strike("null", 0), Strike("text", 0)}

\* float(inst.get("strike", -1)) raises TypeError on None and ValueError on
\* a non-numeric text.
FloatRaises(inst) == inst.strike.kind \in {"null", "text"}
FloatStrike(inst) == IF inst.strike.kind = "absent" THEN -1 ELSE inst.strike.val

\* diff < min, where min starts as float('inf') (None here).
LessThanMin(diff, min) == min = None \/ diff < min[1]

\* The mutant compares with <=, so a later equal-distance instrument wins.
CloserOrEqual(diff, min) == min = None \/ diff <= min[1]

Closer(diff, min) == LessThanMin(diff, min)

MatchStart ==
    [closest_call |-> None, closest_put |-> None,
     min_call_diff |-> None, min_put_diff |-> None]

\* One iteration of the for loop over self.instruments.
ScanInstrument(acc, inst, strike) ==
    IF FloatRaises(inst) THEN acc
    ELSE LET diff == Abs(FloatStrike(inst) - strike)
         IN  IF inst.option_type = "call" /\ Closer(diff, acc.min_call_diff)
               THEN [acc EXCEPT !.min_call_diff = Some(diff),
                                !.closest_call = Some(inst.instrument_name)]
             ELSE IF inst.option_type = "put" /\ Closer(diff, acc.min_put_diff)
               THEN [acc EXCEPT !.min_put_diff = Some(diff),
                                !.closest_put = Some(inst.instrument_name)]
             ELSE acc

RECURSIVE ScanFrom(_, _, _, _)
ScanFrom(acc, insts, i, strike) ==
    IF i > Len(insts) THEN acc
    ELSE ScanFrom(ScanInstrument(acc, insts[i], strike), insts, i + 1, strike)

get_call_put_instruments(insts, strike) ==
    LET acc == ScanFrom(MatchStart, insts, 1, strike)
    IN  [call |-> acc.closest_call, put |-> acc.closest_put]

\* Instrument lists: the name of an instrument is its position in the
\* catalogue, so names are unique.
InstrumentsOfLen(n) ==
    {[i \in 1..n |-> [instrument_name |-> i, strike |-> f[i].strike,
                      option_type |-> f[i].option_type]] :
        f \in [1..n -> [strike : StrikeValues, option_type : {"call", "put"}]]}
InstrumentLists(longest) == UNION {InstrumentsOfLen(n) : n \in 0..longest}

-----------------------------------------------------------------------------
(* task1/client.py: requests and the exchange's answers                    *)

\* A dict: a function from its keys to its values.
EmptyDict == [k \in {} |-> None]
Put(d, k, v) == [x \in DOMAIN d \cup {k} |-> IF x = k THEN v ELSE d[x]]
HasKey(d, k) == k \in DOMAIN d

\* The JSON-RPC messages of get_order_book, get_ticker and get_mark_price.
OrderBookMsg(instrument) ==
    [id |-> 42, method |-> "public/get_order_book", instrument_name |-> instrument]
MarkPriceMsg(instrument) ==
    [id |-> 43, method |-> "public/ticker", instrument_name |-> instrument]
TickerMsg(instrument) ==
    [id |-> 44, method |-> "public/ticker", instrument_name |-> instrument]

Book(bid, ask, last) ==
    [best_bid_price |-> bid, best_ask_price |-> ask, last_price |-> last,
     settlement_price |-> None, min_price |-> None, max_price |-> None]

\* Order books the exchange answers with: two-sided (the mid is half a tick
\* off a whole tick), and nothing usable.
ExchangeBooks == {Book(Some(2), Some(4), None), Book(None, None, None)}

\* Tickers the exchange answers with: usable, and without implied
\* volatility.
ExchangeTickers ==
    {[underlying_price |-> Some(2), mark_iv |-> Some(2), mark_price |-> Some(2),
      timestamp |-> Some(0)],
     [underlying_price |-> Some(2), mark_iv |-> None, mark_price |-> Some(2),
      timestamp |-> Some(0)]}

ErrorMessages == {"rate_limit", "bad_instrument"}

ResultsFor(request) ==
    IF request.method = "public/get_order_book" THEN ExchangeBooks ELSE ExchangeTickers

\* What the exchange can answer to a request: a result, or an error.
Answers(request) ==
    {[id |-> request.id, result |-> r] : r \in ResultsFor(request)}
        \cup {[id |-> request.id, error |-> [message |-> m]] : m \in ErrorMessages}

\* response["result"]: a response without that key raises KeyError('result'),
\* whose text is the quoted key.
ResultRaises(resp) == ~HasKey(resp, "result")
KeyErrorText == "'result'"
RoundNoneText == "type NoneType doesn't define __round__ method"

-----------------------------------------------------------------------------
(* task1/mark_price_calculator.py: compute_black76_mark_price              *)

\* A value float() rejects with ValueError, as it rejects None with
\* TypeError; a number n is <<n>>.
Text == <<"non", "numeric">>
FloatFails(v) == Len(v) # 1

\* inst_data.get("option_type") of a record without one: None, no type.
NoType == ""

\* d.get(key, default)
DictGet(d, key, default) == IF HasKey(d, key) THEN d[key] ELSE default

\* Times are in units of 1e-8 year, the least T, and the interest rate in
\* the inverse unit, so that r * T is their product. math.exp raises
\* OverflowError above 709.78.
MinT == 1
ExpLimit == 709

\* The inputs the pricer reads with float().
Black76Inputs(ticker, inst_data) ==
    [S |-> DictGet(ticker, "underlying_price", None),
     K |-> IF inst_data.strike.kind = "float" THEN Some(inst_data.strike.val)
           ELSE IF inst_data.strike.kind = "text" THEN Text ELSE None,
     r |-> DictGet(ticker, "interest_rate", Some(0)),
     iv |-> DictGet(ticker, "mark_iv", Some(0)),
     t_now |-> DictGet(ticker, "timestamp", None),
     t_exp |-> DictGet(inst_data, "expiration_timestamp", None)]

\* T = max((t_exp - t_now) / 1000 / 60 / 60 / 24 / 365, 1e-8)
TimeToExpiry(in) ==
    IF in.t_exp[1] - in.t_now[1] > MinT THEN in.t_exp[1] - in.t_now[1] ELSE MinT

\* Some float() raises: caught by except Exception.
Black76ConversionFails(in) ==
    \E f \in DOMAIN in : FloatFails(in[f])

\* if S <= 0 or K <= 0 or sigma <= 0 or T <= 0: return None
Black76Rejects(in) ==
    in.S[1] <= 0 \/ in.K[1] <= 0 \/ in.iv[1] <= 0 \/ TimeToExpiry(in) <= 0

\* F = S * math.exp(r * T) raises OverflowError, caught as well.
Black76Overflows(in) == in.r[1] * TimeToExpiry(in) > ExpLimit

\* The mutant lets the arithmetic error out of the pricer's result: a price
\* is returned where math.exp cannot give one.
Black76InapplicableNoOverflow(ticker, inst_data) ==
    LET in == Black76Inputs(ticker, inst_data)
    IN  \/ Black76ConversionFails(in)
        \/ Black76Rejects(in)
        \/ DictGet(inst_data, "option_type", NoType) \notin {"call", "put"}

\* The cases in which the pricer returns None.
Black76Inapplicable(ticker, inst_data) ==
    LET in == Black76Inputs(ticker, inst_data)
    IN  \/ Black76ConversionFails(in)
        \/ Black76Rejects(in)
        \/ Black76Overflows(in)
        \/ DictGet(inst_data, "option_type", NoType) \notin {"call", "put"}

\* The price of the formula is a real number the model does not compute:
\* price is the value it comes to, in half ticks.
compute_black76_mark_price(ticker, inst_data, price) ==
    IF Black76Inapplicable(ticker, inst_data) THEN None ELSE Some(price)

Black76Prices == {1, 2}

-----------------------------------------------------------------------------
(* task1/main.py: main                                                     *)

\* round(x, 4) on a price in half ticks: a whole tick is kept, and a value
\* half way between two ticks goes to one of them, which one depending on
\* the binary value of the float.
Round4(h) == IF h % 2 = 0 THEN {h} ELSE {h - 1, h + 1}

Sides == <<"call", "put">>

InstData(insts, name) ==
    LET idx == {i \in 1..Len(insts) : insts[i].instrument_name = name}
    IN  insts[CHOOSE i \in idx : \A j \in idx : i <= j]

\* The mutant takes a strike one away for the requested one.
IsStandardNear(inst_data, strike) == Abs(FloatStrike(inst_data) - strike) <= 1

\* is_standard = inst_data and float(inst_data.get("strike", -1)) == strike
IsStandard(inst_data, strike) == FloatStrike(inst_data) = strike

FailureEntry(inst_name, is_standard, text) ==
    [computed_mark |-> None, instrument |-> inst_name, is_standard |-> is_standard,
     error |-> <<"Failed to fetch data: ", text>>]

\* The mutant records the absence without a reason.
NoInstrumentEntryBare ==
    [computed_mark |-> None, closest_instrument |-> None]

NoInstrumentEntry ==
    [computed_mark |-> None, error |-> <<"No matching Deribit instrument">>,
     closest_instrument |-> None]

StandardEntry(inst_name, mark, deribit_mark) ==
    [is_standard |-> TRUE, computed_mark |-> mark, deribit_mark |-> deribit_mark,
     instrument |-> inst_name]

ClosestEntry(inst_name, mark) ==
    [is_standard |-> FALSE, computed_mark |-> mark, closest_instrument |-> inst_name]

-----------------------------------------------------------------------------
(* task2/config.py                                                         *)

CRYPTOS == <<"BTC", "ETH", "PAXG", "SOL", "XRP", "ADA">>
CryptoSet == {CRYPTOS[i] : i \in 1..Len(CRYPTOS)}

\* The basket weights, each in a unit that makes it a whole number (the unit
\* of an asset's price is chosen to match); a price times its weight is a
\* valuation in millionths of a dollar, the grain round(x, 6) rounds to.
AMOUNTS ==
    [BTC |-> 1, ETH |-> 1, PAXG |-> 1, SOL |-> 2, XRP |-> 2, ADA |-> 2]

-----------------------------------------------------------------------------
(* task2/data_collection.py: merge_data                                    *)

\* np.nan, which equals nothing; prices are positive and 0 marks a missing
\* cell.
NaN == -1
IsNaN(x) == x = NaN

\* Timestamps are in days of DayLength timestamps: the date of
\* pd.to_datetime(ts, unit="ms").dt.strftime("%Y-%m-%d").
DayLength == 2
Date(ts) == (ts + 1) \div DayLength

\* crypto_data[crypto][ts] = price over the records of one asset: a later
\* record of the same timestamp replaces the earlier one.
RECURSIVE DictOf(_, _)
DictOf(records, d) ==
    IF records = <<>> THEN d
    ELSE DictOf(Tail(records), Put(d, Head(records)[1], Head(records)[2]))

\* The keys of a set, ascending: sorted(...), sort_values("timestamp").
RECURSIVE SortedSeq(_)
SortedSeq(S) ==
    IF S = {} THEN <<>>
    ELSE LET m == CHOOSE x \in S : \A y \in S : x <= y
         IN  <<m>> \o SortedSeq(S \ {m})

\* A frame is a sequence of rows [timestamp, date, cells]; cells maps the
\* columns of the frame, cols, to their values.
\* pd.merge(merged_df, df, on="timestamp", how="outer"): one row for every
\* timestamp of either side, in ascending order, NaN where a side has none.
OuterMerge(left, cols, col, data) ==
    LET leftKeys == {left[i].timestamp : i \in 1..Len(left)}
        keys == SortedSeq(leftKeys \cup DOMAIN data)
        LeftRow(ts) == left[CHOOSE i \in 1..Len(left) : left[i].timestamp = ts]
    IN  [k \in 1..Len(keys) |->
           LET ts == keys[k]
               old == IF ts \in leftKeys THEN LeftRow(ts).cells
                      ELSE [c \in cols |-> NaN]
           IN  [timestamp |-> ts,
                cells |-> Put(old, col, IF ts \in DOMAIN data THEN data[ts] ELSE NaN)]]

\* for df in df_dict.values(): merged_df = df if merged_df is None else merge.
RECURSIVE MergeAll(_, _, _)
MergeAll(crypto_data, i, merged) ==
    IF i > Len(CRYPTOS) THEN merged
    ELSE MergeAll(crypto_data, i + 1,
                  IF i = 1
                    THEN LET keys == SortedSeq(DOMAIN crypto_data[CRYPTOS[1]])
                         IN  [k \in 1..Len(keys) |->
                                [timestamp |-> keys[k],
                                 cells |-> Put(EmptyDict, CRYPTOS[1],
                                               crypto_data[CRYPTOS[1]][keys[k]])]]
                    ELSE OuterMerge(merged, {CRYPTOS[j] : j \in 1..(i - 1)},
                                    CRYPTOS[i], crypto_data[CRYPTOS[i]]))

\* .fillna(0)
FillNa0(frame) ==
    [k \in 1..Len(frame) |->
       [frame[k] EXCEPT !.cells = [c \in DOMAIN @ |-> IF IsNaN(@[c]) THEN 0 ELSE @[c]]]]

\* .sort_values("timestamp"): rows by ascending timestamp, rows of equal
\* timestamp in the order they have.
RECURSIVE SortRows(_)
SortRows(frame) ==
    IF frame = <<>> THEN <<>>
    ELSE LET i == CHOOSE i \in 1..Len(frame) :
                    /\ \A j \in 1..Len(frame) : frame[i].timestamp <= frame[j].timestamp
                    /\ \A j \in 1..(i - 1) : frame[j].timestamp # frame[i].timestamp
         IN  <<frame[i]>>
               \o SortRows(SubSeq(frame, 1, i - 1) \o SubSeq(frame, i + 1, Len(frame)))

\* merged_df["date"] = ...strftime("%Y-%m-%d")
WithDate(frame) ==
    [k \in 1..Len(frame) |->
       [timestamp |-> frame[k].timestamp, date |-> Date(frame[k].timestamp),
        cells |-> frame[k].cells]]

\* Lines 95 to 113: the merge step.
MergeStep(results) ==
    LET crypto_data == [c \in CryptoSet |-> DictOf(results[c], EmptyDict)]
    IN  WithDate(SortRows(FillNa0(MergeAll(crypto_data, 1, <<>>))))

\* pd.merge(merged_df.reset_index(), right, on="date", how="left"), then
\* PAXG = the right value if PAXG == 0 else PAXG: every left row once for
\* each right row of its date, and once with NaN when the date has none.
\* right is a sequence of [date, PAXG].
\* The mutant takes the right value whatever the cell holds.
FillRowAlways(row, value) == [row EXCEPT !.cells["PAXG"] = value]
FillRow(row, value) ==
    [row EXCEPT !.cells["PAXG"] = IF @ = 0 THEN value ELSE @]
RECURSIVE LeftMergeFill(_, _)
LeftMergeFill(frame, right) ==
    IF frame = <<>> THEN <<>>
    ELSE LET row == Head(frame)
             hits == SelectSeq(right, LAMBDA r : r.date = row.date)
         IN  (IF hits = <<>> THEN <<FillRow(row, NaN)>>
              ELSE [k \in 1..Len(hits) |-> FillRow(row, hits[k].PAXG)])
               \o LeftMergeFill(Tail(frame), right)

\* testnet_df[["date", "PAXG"]]
DatePaxg(frame) ==
    [k \in 1..Len(frame) |-> [date |-> frame[k].date, PAXG |-> frame[k].cells["PAXG"]]]

HasMissingPaxg(frame) == \E k \in 1..Len(frame) : frame[k].cells["PAXG"] = 0

\* supplement_paxg_from_yahoo(start, end): ticker.history gives the daily
\* closes of the dates from start up to end (end excluded), or none; each is
\* filed under the next day. closes is what the provider has: <<>> or <<c>>.
YahooFrame(start, end, closes) ==
    IF closes = <<>> \/ end <= start THEN <<>>
    ELSE [k \in 1..(end - start) |-> [date |-> start + k, PAXG |-> closes[1]]]

\* merge_data(results, supplement_paxg, supplement_paxg_from_testnet,
\* testnet_df); testnet_df is None or <<frame>>.
merge_data(results, suppl_paxg, suppl_from_testnet, testnet_df, closes) ==
    LET merged == MergeStep(results)
        filled == IF suppl_from_testnet /\ testnet_df # None
                    THEN LeftMergeFill(merged, DatePaxg(testnet_df[1]))
                    ELSE merged
    IN  IF suppl_paxg /\ "PAXG" \in CryptoSet /\ HasMissingPaxg(filled)
          THEN LeftMergeFill(filled,
                   YahooFrame(Date(filled[1].timestamp),
                              Date(filled[Len(filled)].timestamp), closes))
          ELSE filled

-----------------------------------------------------------------------------
(* task2/price_estimator.py                                                *)

\* merged_array = np.where(merged_array == 0, np.nan, merged_array);
\* prices = merged_array * amount_vector: the valuations of one row.
Valuations(row) ==
    [c \in CryptoSet |->
       IF row.cells[c] = 0 \/ IsNaN(row.cells[c]) THEN NaN
       ELSE row.cells[c] * AMOUNTS[c]]

Valid(p) == {c \in CryptoSet : ~IsNaN(p[c])}

\* valid_counts = np.sum(~np.isnan(prices), axis=1)
valid_counts(p) == Cardinality(Valid(p))

\* The mutants let a row of two, and a row of one, valuations qualify.
enough_data_two(p) == valid_counts(p) > 1
enough_data_one(p) == valid_counts(p) > 0

\* enough_data_mask = valid_counts > 2
enough_data_mask(p) == valid_counts(p) > 2

\* The sum of f over the keys S.
RECURSIVE SumOver(_, _)
SumOver(f, S) ==
    IF S = {} THEN 0
    ELSE LET c == CHOOSE c \in S : TRUE
         IN  f[c] + SumOver(f, S \ {c})

NanSum(p) == SumOver(p, Valid(p))
NanSumSq(p) == SumOver([c \in Valid(p) |-> p[c] * p[c]], Valid(p))

\* A score or a mean is a fraction <<numerator, denominator>>, denominator
\* positive, so that scores are compared exactly.
Less(a, b) == a[1] * b[2] < b[1] * a[2]

\* np.nanmean(filtered_prices, axis=1)
nanmean(p) == <<NanSum(p), valid_counts(p)>>

\* np.nanstd(filtered_prices, axis=1), squared: the population variance
\* (n * sum(x^2) - sum(x)^2) / n^2. The square root keeps the order.
nanvar(p) ==
    <<valid_counts(p) * NanSumSq(p) - NanSum(p) * NanSum(p),
      valid_counts(p) * valid_counts(p)>>

\* np.nanmean(np.abs(filtered_prices - np.nanmean(...))):
\* sum(|n * x - sum(x)|) / n^2.
nanmad(p) ==
    <<SumOver([c \in Valid(p) |-> Abs(valid_counts(p) * p[c] - NanSum(p))], Valid(p)),
      valid_counts(p) * valid_counts(p)>>

\* np.nanmax(filtered_prices, axis=1) - np.nanmin(filtered_prices, axis=1)
nanspread(p) ==
    LET hi == CHOOSE c \in Valid(p) : \A d \in Valid(p) : p[d] <= p[c]
        lo == CHOOSE c \in Valid(p) : \A d \in Valid(p) : p[c] <= p[d]
    IN  <<p[hi] - p[lo], 1>>

\* The mutant takes the last of the smallest scores.
argmin_last(scores) ==
    CHOOSE i \in 1..Len(scores) :
        /\ \A j \in 1..Len(scores) : ~Less(scores[j], scores[i])
        /\ \A j \in (i + 1)..Len(scores) : Less(scores[i], scores[j])

\* np.argmin and, no score of a row that passed the mask being NaN,
\* np.nanargmin: the first index of the smallest score.
argmin(scores) ==
    CHOOSE i \in 1..Len(scores) :
        /\ \A j \in 1..Len(scores) : ~Less(scores[j], scores[i])
        /\ \A j \in 1..(i - 1) : Less(scores[i], scores[j])

\* round(x, 6) of a non-negative fraction of millionths: the nearest whole
\* number, a half going to the even neighbour.
Round6(f) ==
    LET q == f[1] \div f[2]
        r == f[1] % f[2]
    IN  IF 2 * r < f[2] THEN q
        ELSE IF 2 * r > f[2] THEN q + 1
        ELSE IF q % 2 = 0 THEN q ELSE q + 1

\* round(sqrt(x), 6): the whole r with (r - 1/2)^2 <= x < (r + 1/2)^2.
RoundSqrt6(f) ==
    CHOOSE r \in 0..(f[1] + 1) :
        /\ r = 0 \/ (2 * r - 1) * (2 * r - 1) * f[2] <= 4 * f[1]
        /\ 4 * f[1] < (2 * r + 1) * (2 * r + 1) * f[2]

\* np.argmin and np.nanargmin of an empty array raise ValueError.
ValueError == [raised |-> "ValueError"]
Raised(result) == HasKey(result, "raised")

\* pd.to_datetime(timestamp, unit="ms", utc=True).isoformat()
IsoFormat(timestamp) == <<"iso", timestamp>>

\* The "prices" of a record: round(float(prices[i]), 6) or None.
PricesOf(p) == [c \in CryptoSet |-> IF IsNaN(p[c]) THEN None ELSE Some(p[c])]

\* The rows that pass the mask, with their valuations.
Filtered(merged_df) ==
    SelectSeq([k \in 1..Len(merged_df) |->
                  [timestamp |-> merged_df[k].timestamp,
                   prices |-> Valuations(merged_df[k])]],
              LAMBDA row : enough_data_mask(row.prices))

estimate_price_std(merged_df, label) ==
    LET filtered == Filtered(merged_df)
        filtered_stds == [k \in 1..Len(filtered) |-> nanvar(filtered[k].prices)]
        best_idx == argmin(filtered_stds)
    IN  IF filtered = <<>> THEN ValueError
        ELSE [timestamp |-> filtered[best_idx].timestamp,
              date |-> IsoFormat(filtered[best_idx].timestamp),
              price_usd |-> Round6(nanmean(filtered[best_idx].prices)),
              std |-> RoundSqrt6(filtered_stds[best_idx]),
              prices |-> PricesOf(filtered[best_idx].prices),
              label |-> label]

estimate_price_mad(merged_df, label) ==
    LET filtered == Filtered(merged_df)
        filtered_mads == [k \in 1..Len(filtered) |-> nanmad(filtered[k].prices)]
        best_idx == argmin(filtered_mads)
    IN  IF filtered = <<>> THEN ValueError
        ELSE [timestamp |-> filtered[best_idx].timestamp,
              date |-> IsoFormat(filtered[best_idx].timestamp),
              price_usd |-> Round6(nanmean(filtered[best_idx].prices)),
              mad |-> Round6(filtered_mads[best_idx]),
              prices |-> PricesOf(filtered[best_idx].prices),
              label |-> label]

estimate_price_min_max(merged_df, label) ==
    LET filtered == Filtered(merged_df)
        filtered_spreads == [k \in 1..Len(filtered) |-> nanspread(filtered[k].prices)]
        best_idx == argmin(filtered_spreads)
    IN  IF filtered = <<>> THEN ValueError
        ELSE [timestamp |-> filtered[best_idx].timestamp,
              date |-> IsoFormat(filtered[best_idx].timestamp),
              price_usd |-> Round6(nanmean(filtered[best_idx].prices)),
              minmax |-> Round6(filtered_spreads[best_idx]),
              prices |-> PricesOf(filtered[best_idx].prices),
              label |-> label]

\* ESTIMATORS[args.method]
Methods == {"std", "mad", "minmax"}
method_func(name, merged_df, label) ==
    CASE name = "std" -> estimate_price_std(merged_df, label)
      [] name = "mad" -> estimate_price_mad(merged_df, label)
      [] name = "minmax" -> estimate_price_min_max(merged_df, label)

\* DATA_DIR / f"best_match_{name}_{label}.json"
BestMatchFile(name, label) == <<"best_match", name, label>>

\* What json.dump writes: the record without its label.
Dumped(result) == [k \in DOMAIN result \ {"label"} |-> result[k]]

-----------------------------------------------------------------------------
(* task2/main.py: run_analysis                                             *)

\* x.get(name): the value, or None when the record has no such key.
Get(x, name) == IF HasKey(x, name) THEN Some(x[name]) ELSE None

\* lambda x: x.get("std") or x.get("mad") or x.get("minmax")
Key(x) ==
    IF Truthy(Get(x, "std")) THEN Get(x, "std")
    ELSE IF Truthy(Get(x, "mad")) THEN Get(x, "mad")
    ELSE Get(x, "minmax")

\* min([result_test, result_main], key=...) compares the two keys once; None
\* is not ordered against a number or against None: TypeError.
MinRaises(first, second) == Key(first) = None \/ Key(second) = None
Min(first, second) == IF Key(second)[1] < Key(first)[1] THEN second ELSE first

-----------------------------------------------------------------------------
(* Specification of the estimator: every order book, one call.             *)

MidIdle == mid_pc = "idle" /\ order_book = None /\ mid_result = None
MatchIdle ==
    match_pc = "idle" /\ m_instruments = <<>> /\ m_strike = 0 /\ m_result = None
MainIdle ==
    /\ pc = "idle" /\ instruments = <<>> /\ strikes = <<>>
    /\ black76 = FALSE /\ testnet = FALSE /\ cycle = 0 /\ si = 0 /\ side = 0
    /\ matched = None /\ output = EmptyDict /\ saved = 0
    /\ sent = <<>> /\ response = None /\ book = None /\ fetched_ticker = None
    /\ computed_mark = None /\ entry = None

RunIdle ==
    /\ run_pc = "idle" /\ testnet_data = None /\ mainnet_data = None
    /\ method = "" /\ supplement_paxg = FALSE /\ supplement_paxg_from_testnet = FALSE
    /\ df_test = None /\ df_main = None /\ result_test = None /\ result_main = None
    /\ best = None /\ files = EmptyDict /\ raised = None

B76Idle ==
    b76_pc = "idle" /\ b76_ticker = EmptyDict /\ b76_inst = EmptyDict /\ b76_result = None
\* is_testnet of the two collect_data passes of run_analysis.
Passes == BOOLEAN
GatherIdle ==
    /\ g_pc = "idle" /\ gathered = None
    /\ c_pc = [p \in Passes |-> "idle"]
    /\ msg_ids = [p \in Passes |-> <<>>]
    /\ pending = [p \in Passes |-> <<>>]
    /\ responses = [p \in Passes |-> EmptyDict]
    /\ received = [p \in Passes |-> 0]
    /\ collected = [p \in Passes |-> None]
LaterIdle == B76Idle /\ GatherIdle

InitMid ==
    /\ mid_pc = "start"
    /\ order_book \in [BookFields -> OptPrices]
    /\ mid_result = None
    /\ MatchIdle /\ MainIdle /\ RunIdle /\ LaterIdle

ComputeMid ==
    /\ mid_pc = "start"
    /\ mid_result' = compute_mid_price(order_book)
    /\ mid_pc' = "done"
    /\ UNCHANGED <<order_book, matchVars, mainVars, runVars, laterVars>>

NextMid == ComputeMid
SpecMid == InitMid /\ [][NextMid]_vars

-----------------------------------------------------------------------------
(* Specification of the matcher: every catalogue and target, one call.     *)

InitMatch ==
    /\ match_pc = "start"
    /\ m_instruments \in InstrumentLists(MaxInst)
    /\ m_strike \in 0..MaxStrike
    /\ m_result = None
    /\ MidIdle /\ MainIdle /\ RunIdle /\ LaterIdle

Match ==
    /\ match_pc = "start"
    /\ m_result' = get_call_put_instruments(m_instruments, m_strike)
    /\ match_pc' = "done"
    /\ UNCHANGED <<m_instruments, m_strike, midVars, mainVars, runVars, laterVars>>

NextMatch == Match
SpecMatch == InitMatch /\ [][NextMatch]_vars

-----------------------------------------------------------------------------
(* Specification of the evaluation cycle of task1/main.py, from the state  *)
(* after load_instruments.                                                 *)

\* The instruments an expiry can list: a call and a put at every strike,
\* named by their place in the exchange's listing (by strike, call first).
ListedInstrument(k) ==
    [instrument_name |-> k, strike |-> Strike("float", (k + 1) \div 2),
     option_type |-> IF k % 2 = 1 THEN "call" ELSE "put",
     expiration_timestamp |-> Some(1)]
RECURSIVE Listing(_, _)
Listing(S, k) ==
    IF k > 2 * MaxCatalogueStrike THEN <<>>
    ELSE (IF k \in S THEN <<ListedInstrument(k)>> ELSE <<>>) \o Listing(S, k + 1)

\* What load_instruments leaves in client.instruments: any part of them.
Catalogues == {Listing(S, 1) : S \in SUBSET (1..(2 * MaxCatalogueStrike))}
\* args.strikes: some of the strikes 1..MaxTargets, in ascending order. The
\* highest of them is listed by no instrument.
RECURSIVE Ascending(_, _)
Ascending(S, k) ==
    IF k > MaxTargets THEN <<>>
    ELSE (IF k \in S THEN <<k>> ELSE <<>>) \o Ascending(S, k + 1)
TargetLists == {Ascending(S, 1) : S \in (SUBSET (1..MaxTargets)) \ {{}}}

InitMain ==
    /\ pc = "loop"
    /\ instruments \in Catalogues
    /\ strikes \in TargetLists
    /\ black76 \in BOOLEAN
    /\ testnet = FALSE
    /\ cycle = 0 /\ si = 0 /\ side = 0
    /\ matched = None /\ output = EmptyDict /\ saved = 0
    /\ sent = <<>> /\ response = None /\ book = None /\ fetched_ticker = None
    /\ computed_mark = None /\ entry = None
    /\ MidIdle /\ MatchIdle /\ RunIdle /\ LaterIdle

\* The locals of the loop body.
strike == strikes[si]
option_type == Sides[side]
inst_name == matched[1][option_type]
inst_data == InstData(instruments, inst_name[1])
is_standard == IsStandard(inst_data, strike)

\* while time.time() - start_time < args.T1: one more cycle.
LoopEnter ==
    /\ pc = "loop" /\ cycle < MaxCycles
    /\ cycle' = cycle + 1
    /\ output' = EmptyDict
    /\ si' = 1
    /\ pc' = "strike"
    /\ UNCHANGED <<instruments, strikes, black76, testnet, side, matched, saved,
                   sent, response, book, fetched_ticker, computed_mark, entry>>

\* The time is up: await client.close().
LoopExit ==
    /\ pc = "loop"
    /\ pc' = "closed"
    /\ UNCHANGED <<instruments, strikes, black76, testnet, cycle, si, side, matched,
                   output, saved, sent, response, book, fetched_ticker, computed_mark, entry>>

\* for strike in args.strikes: match, and start the strike's dict.
ForStrike ==
    /\ pc = "strike" /\ si <= Len(strikes)
    /\ matched' = Some(get_call_put_instruments(instruments, strike))
    /\ output' = Put(output, strike, EmptyDict)
    /\ side' = 1
    /\ pc' = "side"
    /\ UNCHANGED <<instruments, strikes, black76, testnet, cycle, si, saved,
                   sent, response, book, fetched_ticker, computed_mark, entry>>

\* All strikes done: save_output(timestamp, output) writes output to one more
\* file, then sleep. saved counts the files; output is what the last one holds
\* until the next cycle starts.
SaveOutput ==
    /\ pc = "strike" /\ si > Len(strikes)
    /\ saved' = saved + 1
    /\ pc' = "loop"
    /\ UNCHANGED <<instruments, strikes, black76, testnet, cycle, si, side, matched,
                   output, sent, response, book, fetched_ticker, computed_mark, entry>>

\* The mutant sends the ticker request of the Black-76 branch along with the
\* order book request, before any answer.
ForSidePipelined ==
    /\ pc = "side"
    /\ IF inst_name = None
         THEN /\ entry' = Some(NoInstrumentEntry)
              /\ pc' = "store"
              /\ sent' = sent
         ELSE /\ entry' = None
              /\ sent' = IF black76
                           THEN sent \o <<OrderBookMsg(inst_name[1]), TickerMsg(inst_name[1])>>
                           ELSE Append(sent, OrderBookMsg(inst_name[1]))
              /\ pc' = "book"
    /\ UNCHANGED <<instruments, strikes, black76, testnet, cycle, si, side, matched,
                   output, saved, response, book, fetched_ticker, computed_mark>>

\* for inst_name, option_type in [(call_inst, "call"), (put_inst, "put")]:
\* without instrument the entry says so, otherwise the order book is asked.
ForSide ==
    /\ pc = "side"
    /\ IF inst_name = None
         THEN /\ entry' = Some(NoInstrumentEntry)
              /\ pc' = "store"
              /\ sent' = sent
         ELSE /\ entry' = None
              /\ sent' = Append(sent, OrderBookMsg(inst_name[1]))
              /\ pc' = "book"
    /\ UNCHANGED <<instruments, strikes, black76, testnet, cycle, si, side, matched,
                   output, saved, response, book, fetched_ticker, computed_mark>>

\* client.send: the request is on the connection until ws.recv() returns
\* the exchange's answer to it.
Outstanding == sent # <<>>
Received == Tail(sent)

\* except Exception as e: the failure record of the instrument.
Caught(text) ==
    /\ entry' = Some(FailureEntry(inst_name[1], is_standard, text))
    /\ pc' = "store"
    /\ sent' = Received
    /\ computed_mark' = computed_mark

\* computed_mark = round(computed_mark, 4), then the entry: a standard
\* match asks the exchange's mark first.
Priced(mark) ==
    IF mark = None THEN Caught(RoundNoneText)
    ELSE \E r \in Round4(mark[1]) :
           /\ computed_mark' = Some(r)
           /\ IF is_standard
                THEN /\ sent' = Append(Received, MarkPriceMsg(inst_name[1]))
                     /\ pc' = "mark"
                     /\ entry' = entry
                ELSE /\ entry' = Some(ClosestEntry(inst_name[1], Some(r)))
                     /\ pc' = "store"
                     /\ sent' = Received

\* response = await self.send(msg); return response["result"]: the local
\* response is gone when the call returns, and stays with the exception
\* when indexing it raises.
\* book = await client.get_order_book(inst_name); book is read again for the
\* fall back of the Black-76 branch.
RecvBook ==
    /\ pc = "book" /\ Outstanding
    /\ \E answer \in Answers(Head(sent)) :
         IF ResultRaises(answer)
           THEN Caught(KeyErrorText) /\ response' = Some(answer) /\ book' = None
           ELSE /\ response' = None
                /\ book' = Some(answer.result)
                /\ IF black76
                     THEN /\ sent' = Append(Received, TickerMsg(inst_name[1]))
                          /\ pc' = "ticker"
                          /\ UNCHANGED <<entry, computed_mark>>
                     ELSE Priced(compute_mid_price(answer.result))
    /\ UNCHANGED <<instruments, strikes, black76, testnet, cycle, si, side, matched,
                   output, saved, fetched_ticker>>

\* The mutant has no fall back: a null Black-76 price goes on to round().
RecvTickerNoFallBack ==
    /\ pc = "ticker" /\ Outstanding
    /\ \E answer \in Answers(Head(sent)) :
         IF ResultRaises(answer)
           THEN /\ Caught(KeyErrorText) /\ response' = Some(answer)
                /\ book' = None /\ fetched_ticker' = None
           ELSE /\ response' = None
                /\ book' = book /\ fetched_ticker' = Some(answer.result)
                /\ \E price \in Black76Prices :
                     Priced(compute_black76_mark_price(answer.result, inst_data, price))
    /\ UNCHANGED <<instruments, strikes, black76, testnet, cycle, si, side, matched,
                   output, saved>>

\* ticker = await client.get_ticker(inst_name), the Black-76 price and the
\* fall back on the mid price. book and ticker (fetched_ticker) are locals of
\* the iteration.
RecvTicker ==
    /\ pc = "ticker" /\ Outstanding
    /\ \E answer \in Answers(Head(sent)) :
         IF ResultRaises(answer)
           THEN /\ Caught(KeyErrorText) /\ response' = Some(answer)
                /\ book' = None /\ fetched_ticker' = None
           ELSE /\ response' = None
                /\ book' = book /\ fetched_ticker' = Some(answer.result)
                /\ \E price \in Black76Prices :
                     LET b76 == compute_black76_mark_price(answer.result, inst_data, price)
                     IN  Priced(IF b76 = None THEN compute_mid_price(book[1]) ELSE b76)
    /\ UNCHANGED <<instruments, strikes, black76, testnet, cycle, si, side, matched,
                   output, saved>>

\* "deribit_mark": await client.get_mark_price(inst_name)
RecvMark ==
    /\ pc = "mark" /\ Outstanding
    /\ \E answer \in Answers(Head(sent)) :
         IF ResultRaises(answer)
           THEN Caught(KeyErrorText) /\ response' = Some(answer)
           ELSE /\ response' = None
                /\ entry' = Some(StandardEntry(inst_name[1], computed_mark,
                                               answer.result.mark_price))
                /\ pc' = "store"
                /\ sent' = Received
                /\ computed_mark' = computed_mark
    /\ UNCHANGED <<instruments, strikes, black76, testnet, cycle, si, side, matched,
                   output, saved, book, fetched_ticker>>

\* The mutant leaves the strike after a failure, as a handler around the
\* loop over the sides would.
StoreFailureEndsStrike ==
    /\ pc = "store"
    /\ output' = Put(output, strike,
                     Put(output[strike], option_type, Put(entry[1], "testnet", testnet)))
    /\ IF side < Len(Sides) /\ ~HasKey(entry[1], "error")
         THEN side' = side + 1 /\ si' = si /\ pc' = "side"
         ELSE side' = side /\ si' = si + 1 /\ pc' = "strike"
    /\ response' = None /\ book' = None /\ fetched_ticker' = None
    /\ computed_mark' = None /\ entry' = None
    /\ UNCHANGED <<instruments, strikes, black76, testnet, cycle, matched, saved,
                   sent>>

\* entry["testnet"] = args.testnet; output[str(strike)][option_type] = entry,
\* and the loops go on: the locals of the iteration are gone.
Store ==
    /\ pc = "store"
    /\ output' = Put(output, strike,
                     Put(output[strike], option_type, Put(entry[1], "testnet", testnet)))
    /\ IF side < Len(Sides)
         THEN side' = side + 1 /\ si' = si /\ pc' = "side"
         ELSE side' = side /\ si' = si + 1 /\ pc' = "strike"
    /\ response' = None /\ book' = None /\ fetched_ticker' = None
    /\ computed_mark' = None /\ entry' = None
    /\ UNCHANGED <<instruments, strikes, black76, testnet, cycle, matched, saved,
                   sent>>

NextMain ==
    \/ (LoopEnter /\ UNCHANGED <<midVars, matchVars, runVars, laterVars>>)
    \/ (LoopExit /\ UNCHANGED <<midVars, matchVars, runVars, laterVars>>)
    \/ (ForStrike /\ UNCHANGED <<midVars, matchVars, runVars, laterVars>>)
    \/ (SaveOutput /\ UNCHANGED <<midVars, matchVars, runVars, laterVars>>)
    \/ (ForSide /\ UNCHANGED <<midVars, matchVars, runVars, laterVars>>)
    \/ (RecvBook /\ UNCHANGED <<midVars, matchVars, runVars, laterVars>>)
    \/ (RecvTicker /\ UNCHANGED <<midVars, matchVars, runVars, laterVars>>)
    \/ (RecvMark /\ UNCHANGED <<midVars, matchVars, runVars, laterVars>>)
    \/ (Store /\ UNCHANGED <<midVars, matchVars, runVars, laterVars>>)
Spec == InitMain /\ [][NextMain]_vars

-----------------------------------------------------------------------------
(* Settlement data.                                                        *)

\* A settlement series: the records <<timestamp, price>> of one asset, one
\* for every timestamp of the partial map f.
SeriesOf(f) ==
    LET keys == SortedSeq(DOMAIN f)
    IN  [k \in 1..Len(keys) |-> <<keys[k], f[keys[k]]>>]
PartialMaps(T, P) == UNION {[D -> P] : D \in SUBSET T}

\* The prices an asset settles at: two levels for PAXG and SOL, one for the
\* others.
Quotes(c) == IF c \in {"PAXG", "SOL"} THEN {10, 20} ELSE {10}

\* The data of one collect_data pass: every choice of one series an asset.
DataSets(series) ==
    {[BTC |-> b, ETH |-> e, PAXG |-> p, SOL |-> s, XRP |-> x, ADA |-> a] :
        b \in series["BTC"], e \in series["ETH"], p \in series["PAXG"],
        s \in series["SOL"], x \in series["XRP"], a \in series["ADA"]}
Records(data) == SumOver([c \in CryptoSet |-> Len(data[c])], CryptoSet)

-----------------------------------------------------------------------------
(* Specification of the estimators: every merged table of at most          *)
(* MaxRecords settlements of the six assets, with and without the Yahoo    *)
(* gap fill (which finds no close), and each of the three estimators.      *)

EstTimestamps == {1, 2}
EstSeries ==
    [c \in CryptoSet |-> {SeriesOf(f) : f \in PartialMaps(EstTimestamps, Quotes(c))}]
EstData(most) == {data \in DataSets(EstSeries) : Records(data) <= most}
MergedTables(most) ==
    {merge_data(data, fill, FALSE, None, <<>>) : data \in EstData(most), fill \in BOOLEAN}

InitEst ==
    /\ run_pc = "estimate"
    /\ df_main \in {Some(t) : t \in MergedTables(MaxRecords)}
    /\ testnet_data = None /\ mainnet_data = None
    /\ method = "" /\ supplement_paxg = FALSE /\ supplement_paxg_from_testnet = FALSE
    /\ df_test = None /\ result_test = None /\ result_main = None
    /\ best = None /\ files = EmptyDict /\ raised = None
    /\ MidIdle /\ MatchIdle /\ MainIdle /\ LaterIdle

\* One call method_func(df_main, label="mainnet"): the record is written to
\* its file and returned, unless the call raised before.
Estimated(m, df, label, next) ==
    LET result == method_func(m, df[1], label)
    IN  IF Raised(result)
          THEN /\ run_pc' = "raised"
               /\ raised' = Some(result.raised)
               /\ UNCHANGED files
          ELSE /\ run_pc' = next
               /\ files' = Put(files, BestMatchFile(m, label), Dumped(result))
               /\ UNCHANGED raised

Estimate ==
    /\ run_pc = "estimate"
    /\ \E m \in Methods :
         /\ method' = m
         /\ Estimated(m, df_main, "mainnet", "done")
         /\ result_main' =
              LET result == method_func(m, df_main[1], "mainnet")
              IN  IF Raised(result) THEN None ELSE Some(result)
    /\ UNCHANGED <<testnet_data, mainnet_data, supplement_paxg,
                   supplement_paxg_from_testnet, df_test, df_main, result_test, best>>

NextEst == Estimate /\ UNCHANGED <<midVars, matchVars, mainVars, laterVars>>
SpecEst == InitEst /\ [][NextEst]_vars

-----------------------------------------------------------------------------
(* Specification of run_analysis, from the state after the two             *)
(* collect_data passes: BTC, ETH and PAXG settle at most once each, at a    *)
(* timestamp of 1..MaxRunTs.                                               *)

RunTimestamps == 1..MaxRunTs
RunSeries ==
    [c \in CryptoSet |->
       IF c \in {"BTC", "ETH", "PAXG"}
         THEN {SeriesOf(f) : f \in {g \in PartialMaps(RunTimestamps, Quotes(c)) :
                                      Cardinality(DOMAIN g) <= 1}}
         ELSE {<<>>}]
RunData == DataSets(RunSeries)

\* What Yahoo Finance has for the range asked: nothing, or a close.
YahooCloses == {<<>>, <<40>>}

InitRun ==
    /\ run_pc = "merge_test"
    /\ testnet_data \in {Some(d) : d \in RunData}
    /\ mainnet_data \in {Some(d) : d \in RunData}
    /\ method \in Methods
    /\ supplement_paxg \in BOOLEAN
    /\ supplement_paxg_from_testnet \in BOOLEAN
    /\ df_test = None /\ df_main = None /\ result_test = None /\ result_main = None
    /\ best = None /\ files = EmptyDict /\ raised = None
    /\ MidIdle /\ MatchIdle /\ MainIdle /\ LaterIdle

\* df_test = merge_data(testnet_data, supplement_paxg=supplement_paxg)
MergeTest ==
    /\ run_pc = "merge_test"
    /\ \E closes \in YahooCloses :
         df_test' = Some(merge_data(testnet_data[1], supplement_paxg, FALSE, None, closes))
    /\ run_pc' = "merge_main"
    /\ UNCHANGED <<testnet_data, mainnet_data, method, supplement_paxg,
                   supplement_paxg_from_testnet, df_main, result_test, result_main,
                   best, files, raised>>

\* df_main = merge_data(mainnet_data, ..., testnet_df=df_test if ... else None)
MergeMain ==
    /\ run_pc = "merge_main"
    /\ \E closes \in YahooCloses :
         df_main' = Some(merge_data(mainnet_data[1], supplement_paxg,
                                    supplement_paxg_from_testnet,
                                    IF supplement_paxg_from_testnet THEN df_test ELSE None,
                                    closes))
    /\ run_pc' = "estimate_test"
    /\ UNCHANGED <<testnet_data, mainnet_data, method, supplement_paxg,
                   supplement_paxg_from_testnet, df_test, result_test, result_main,
                   best, files, raised>>

\* result_test = method_func(df_test, label="testnet", ...)
EstimateTest ==
    /\ run_pc = "estimate_test"
    /\ Estimated(method, df_test, "testnet", "estimate_main")
    /\ result_test' =
         LET result == method_func(method, df_test[1], "testnet")
         IN  IF Raised(result) THEN None ELSE Some(result)
    /\ UNCHANGED <<testnet_data, mainnet_data, method, supplement_paxg,
                   supplement_paxg_from_testnet, df_test, df_main, result_main, best>>

\* result_main = method_func(df_main, label="mainnet", ...)
EstimateMain ==
    /\ run_pc = "estimate_main"
    /\ Estimated(method, df_main, "mainnet", "compare")
    /\ result_main' =
         LET result == method_func(method, df_main[1], "mainnet")
         IN  IF Raised(result) THEN None ELSE Some(result)
    /\ UNCHANGED <<testnet_data, mainnet_data, method, supplement_paxg,
                   supplement_paxg_from_testnet, df_test, df_main, result_test, best>>

\* best = min([result_test, result_main], key=...)
Compare ==
    /\ run_pc = "compare"
    /\ IF MinRaises(result_test[1], result_main[1])
         THEN /\ run_pc' = "raised"
              /\ raised' = Some("TypeError")
              /\ UNCHANGED best
         ELSE /\ run_pc' = "done"
              /\ best' = Some(Min(result_test[1], result_main[1]))
              /\ UNCHANGED raised
    /\ UNCHANGED <<testnet_data, mainnet_data, method, supplement_paxg,
                   supplement_paxg_from_testnet, df_test, df_main, result_test,
                   result_main, files>>

NextRun ==
    \/ (MergeTest /\ UNCHANGED <<midVars, matchVars, mainVars, laterVars>>)
    \/ (MergeMain /\ UNCHANGED <<midVars, matchVars, mainVars, laterVars>>)
    \/ (EstimateTest /\ UNCHANGED <<midVars, matchVars, mainVars, laterVars>>)
    \/ (EstimateMain /\ UNCHANGED <<midVars, matchVars, mainVars, laterVars>>)
    \/ (Compare /\ UNCHANGED <<midVars, matchVars, mainVars, laterVars>>)
SpecRun == InitRun /\ [][NextRun]_vars

-----------------------------------------------------------------------------
(* Specification of the Black-76 pricer: every ticker and instrument       *)
(* record with fields absent, null, non-numeric or a number of             *)
(* -1..MaxB76, one call.                                                   *)

B76Numbers == {Some(n) : n \in -1..MaxB76}
B76Times == {Some(n) : n \in 0..MaxB76}
B76Rates == {None, Some(0), Some(ExpLimit \div 2 + 1)}

\* The dict f without the keys in absent.
Without(f, absent) == [k \in DOMAIN f \ absent |-> f[k]]

B76Tickers ==
    {Without([underlying_price |-> s, interest_rate |-> r, mark_iv |-> iv,
              timestamp |-> t], absent) :
        s \in B76Numbers \cup {None, Text}, r \in B76Rates,
        iv \in B76Numbers \cup {None}, t \in B76Times \cup {None},
        absent \in SUBSET {"interest_rate", "mark_iv"}}

B76Strikes ==
    {Strike("float", v) : v \in -1..MaxB76}
        \cup {Strike("absent", 0), Strike("null", 0), Strike("text", 0)}

B76Instruments ==
    {Without([instrument_name |-> 1, strike |-> k, option_type |-> o,
              expiration_timestamp |-> t], absent) :
        k \in B76Strikes, o \in {"call", "put", "future"},
        t \in B76Times \cup {Some(MaxB76 + 1), None},
        absent \in SUBSET {"option_type"}}

InitB76 ==
    /\ b76_pc = "start"
    /\ b76_ticker \in B76Tickers
    /\ b76_inst \in B76Instruments
    /\ b76_result = None
    /\ MidIdle /\ MatchIdle /\ MainIdle /\ RunIdle /\ GatherIdle

\* One call compute_black76_mark_price(ticker, inst_data): it returns, an
\* exception of the body being caught inside.
Black76 ==
    /\ b76_pc = "start"
    /\ \E price \in Black76Prices :
         b76_result' = compute_black76_mark_price(b76_ticker, b76_inst, price)
    /\ b76_pc' = "returned"
    /\ UNCHANGED <<b76_ticker, b76_inst, midVars, matchVars, mainVars, runVars,
                   gatherVars>>

NextB76 == Black76
SpecB76 == InitB76 /\ [][NextB76]_vars

-----------------------------------------------------------------------------
(* task2/data_collection.py: collect_data, and the gather of               *)
(* task2/main.py: run_analysis. The two passes, each on its connection,    *)
(* over the first MaxTracked assets of CRYPTOS and one time step.          *)

\* async with websockets.connect(url, ssl=ssl_context) as ws: every call of
\* collect_data opens its own connection, named here by the pass.
ws_shared(is_testnet) == TRUE
ws(is_testnet) == is_testnet

ts_steps == <<1>>
Tracked == SubSeq(CRYPTOS, 1, MaxTracked)

\* msg_id = f"{crypto}_{ts}"
MsgId(crypto, ts) == <<crypto, ts>>
\* for crypto in CRYPTOS: for ts in ts_steps: the entries (crypto, ts, msg_id)
\* in the order of the loops.
AllRequests ==
    [k \in 1..(Len(Tracked) * Len(ts_steps)) |->
        LET crypto == Tracked[((k - 1) \div Len(ts_steps)) + 1]
            ts == ts_steps[((k - 1) % Len(ts_steps)) + 1]
        IN  <<crypto, ts, MsgId(crypto, ts)>>]

\* The exchange behind a connection: the testnet and the mainnet settle at
\* different prices, so that a record shows which exchange it comes from.
SettlePrice(conn) == IF conn THEN 10 ELSE 20
Settlement(timestamp, price) == [timestamp |-> timestamp, mark_price |-> price]
\* What the exchange answers to a request: settlements (one, with or without
\* a mark price) in a result, or an error without result.
AnswersTo(conn, id) ==
    {[id |-> Some(id), result |-> Some(<<Settlement(Some(1), Some(SettlePrice(conn)))>>)],
     [id |-> Some(id), result |-> Some(<<Settlement(Some(1), None)>>)],
     [id |-> Some(id), result |-> None]}
Without1(seq, i) == SubSeq(seq, 1, i - 1) \o SubSeq(seq, i + 1, Len(seq))

\* The records of one entry of msg_ids: response = responses.get(msg_id, {}),
\* settlements = response.get("result", {}).get("settlements", []), and the
\* settlements with a timestamp and a price.
RECURSIVE RecordsOfSettlements(_, _)
RecordsOfSettlements(crypto, settlements) ==
    IF settlements = <<>> THEN <<>>
    ELSE LET e == Head(settlements)
         IN  (IF Truthy(e.timestamp) /\ Truthy(e.mark_price)
                THEN <<<<crypto, e.timestamp[1], e.mark_price[1]>>>>
                ELSE <<>>)
             \o RecordsOfSettlements(crypto, Tail(settlements))
RecordsOf(request, resp) ==
    IF ~HasKey(resp, request[3]) \/ resp[request[3]].result = None THEN <<>>
    ELSE RecordsOfSettlements(request[1], resp[request[3]].result[1])
RECURSIVE AllRecords(_, _)
AllRecords(ids, resp) ==
    IF ids = <<>> THEN <<>>
    ELSE RecordsOf(Head(ids), resp) \o AllRecords(Tail(ids), resp)
\* df.groupby("crypto"): the rows <<timestamp, price>> of every asset, in the
\* order of the records.
RECURSIVE RowsOf(_, _)
RowsOf(crypto, recs) ==
    IF recs = <<>> THEN <<>>
    ELSE (IF Head(recs)[1] = crypto THEN <<<<Head(recs)[2], Head(recs)[3]>>>> ELSE <<>>)
         \o RowsOf(crypto, Tail(recs))
Grouped(recs) == [c \in CryptoSet |-> RowsOf(c, recs)]

InitGather ==
    /\ g_pc = "gather" /\ gathered = None
    /\ c_pc = [p \in Passes |-> "send"]
    /\ msg_ids = [p \in Passes |-> <<>>]
    /\ pending = [p \in Passes |-> <<>>]
    /\ responses = [p \in Passes |-> EmptyDict]
    /\ received = [p \in Passes |-> 0]
    /\ collected = [p \in Passes |-> None]
    /\ MidIdle /\ MatchIdle /\ MainIdle /\ RunIdle /\ B76Idle

otherVars == <<midVars, matchVars, mainVars, runVars, b76Vars>>

\* requests.append(msg); msg_ids.append(...); await ws.send(json.dumps(msg)):
\* the request is with the exchange of the connection. After the last one
\* the pass receives.
Send(p) ==
    /\ c_pc[p] = "send"
    /\ LET next == AllRequests[Len(msg_ids[p]) + 1]
       IN  /\ msg_ids' = [msg_ids EXCEPT ![p] = Append(@, next)]
           /\ pending' = [pending EXCEPT ![ws(p)] = Append(@, next[3])]
           /\ c_pc' = [c_pc EXCEPT ![p] =
                          IF Len(msg_ids[p]) + 1 = Len(AllRequests) THEN "recv" ELSE "send"]
    /\ UNCHANGED <<g_pc, responses, received, collected, gathered, otherVars>>

\* raw = await ws.recv(); data = json.loads(raw); responses[data["id"]] = data
\* for one of the range(len(requests)) turns. The message is the exchange's
\* answer to any of the requests it has, in whatever order it answers them.
Recv(p) ==
    /\ c_pc[p] = "recv" /\ received[p] < Len(msg_ids[p])
    /\ \E i \in 1..Len(pending[ws(p)]) :
         \E msg \in AnswersTo(ws(p), pending[ws(p)][i]) :
            /\ pending' = [pending EXCEPT ![ws(p)] = Without1(@, i)]
            /\ responses' = [responses EXCEPT ![p] = Put(@, msg.id[1], msg)]
            /\ received' = [received EXCEPT ![p] = @ + 1]
    /\ UNCHANGED <<g_pc, c_pc, msg_ids, collected, gathered, otherVars>>

\* The exchange does not answer a request: no message will come for it.
Drop(conn) ==
    /\ \E i \in 1..Len(pending[conn]) :
         pending' = [pending EXCEPT ![conn] = Without1(@, i)]
    /\ UNCHANGED <<g_pc, c_pc, msg_ids, responses, received, collected, gathered,
                   otherVars>>

\* await ws.recv() with no message to come: it waits, or the connection is
\* closed under it and recv raises ConnectionClosed, which collect_data does
\* not catch.
RecvRaises(p) ==
    /\ c_pc[p] = "recv" /\ received[p] < Len(msg_ids[p])
    /\ pending[ws(p)] = <<>>
    /\ c_pc' = [c_pc EXCEPT ![p] = "raised"]
    /\ UNCHANGED <<g_pc, msg_ids, pending, responses, received, collected, gathered,
                   otherVars>>

\* The loop over range(len(requests)) is over: the connection is closed, the
\* records are built and returned by asset.
Return(p) ==
    /\ c_pc[p] = "recv" /\ received[p] = Len(msg_ids[p])
    /\ collected' = [collected EXCEPT ![p] = Some(Grouped(AllRecords(msg_ids[p], responses[p])))]
    /\ c_pc' = [c_pc EXCEPT ![p] = "returned"]
    /\ UNCHANGED <<g_pc, msg_ids, pending, responses, received, gathered,
                   otherVars>>

\* testnet_data, mainnet_data = await asyncio.gather(...): both passes have
\* returned, merge_data is next.
Join ==
    /\ g_pc = "gather"
    /\ \A p \in Passes : c_pc[p] = "returned"
    /\ gathered' = Some([testnet_data |-> collected[TRUE][1],
                         mainnet_data |-> collected[FALSE][1]])
    /\ g_pc' = "merge"
    /\ UNCHANGED <<c_pc, msg_ids, pending, responses, received, collected,
                   otherVars>>

\* gather without return_exceptions: the exception of a pass is raised in
\* run_analysis.
GatherRaises ==
    /\ g_pc = "gather"
    /\ \E p \in Passes : c_pc[p] = "raised"
    /\ g_pc' = "raised"
    /\ UNCHANGED <<c_pc, msg_ids, pending, responses, received, collected,
                   gathered, otherVars>>

NextGather ==
    \/ \E p \in Passes : Send(p)
    \/ \E p \in Passes : Recv(p)
    \/ \E conn \in Passes : Drop(conn)
    \/ \E p \in Passes : RecvRaises(p)
    \/ \E p \in Passes : Return(p)
    \/ Join
    \/ GatherRaises
SpecGather == InitGather /\ [][NextGather]_vars

\* The event loop runs every task that can run, and a message that has come
\* is received; the exchange is free to leave a request without answer.
FairGather ==
    /\ \A p \in Passes : WF_vars(Send(p)) /\ WF_vars(Recv(p)) /\ WF_vars(Return(p))
    /\ WF_vars(Join) /\ WF_vars(GatherRaises)
SpecGatherFair == SpecGather /\ FairGather

-----------------------------------------------------------------------------
(* Claims.                                                                 *)

Present(x) == x # None
Positive(x) == x # None /\ x[1] > 0

\* C1: compute_mid_price returns the value of the first applicable rule:
\* the mean of bid and ask if both are present and > 0; else bid if present
\* and > 0; else ask if present and > 0; else last_price if present
\* (whatever its value); else settlement_price if present; else the mean of
\* min_price and max_price if both are present and > 0; else null.
C1_FirstApplicableRule ==
    mid_pc = "done" =>
        LET bid == order_book.best_bid_price
            ask == order_book.best_ask_price
            last == order_book.last_price
            settlement == order_book.settlement_price
            lo == order_book.min_price
            hi == order_book.max_price
        IN  IF Positive(bid) /\ Positive(ask)
              THEN Present(mid_result) /\ 2 * mid_result[1] = bid[1] + ask[1]
            ELSE IF Positive(bid) THEN mid_result = bid
            ELSE IF Positive(ask) THEN mid_result = ask
            ELSE IF Present(last) THEN mid_result = last
            ELSE IF Present(settlement) THEN mid_result = settlement
            ELSE IF Positive(lo) /\ Positive(hi)
              THEN Present(mid_result) /\ 2 * mid_result[1] = lo[1] + hi[1]
            ELSE mid_result = None

\* C1 witness: bid is absent, ask is present but 0, and a last_price of 0 is
\* returned although a settlement price is there.
C1_Witness ==
    /\ mid_pc = "done"
    /\ order_book.best_bid_price = None
    /\ order_book.best_ask_price = Some(0)
    /\ order_book.last_price = Some(0)
    /\ order_book.settlement_price = Some(2)
    /\ mid_result = Some(0)

IsFloatStrike(inst) == inst.strike.kind = "float"
AllStrikesNumeric(insts) == \A i \in 1..Len(insts) : IsFloatStrike(insts[i])
OfType(insts, t) == {i \in 1..Len(insts) : insts[i].option_type = t}
Distance(insts, i, target) == Abs(insts[i].strike.val - target)

\* C2: over a catalogue whose instruments all carry a numeric strike,
\* get_call_put_instruments returns for calls and for puts independently the
\* instrument of that type at minimum absolute distance from the target,
\* the first in list order among those at equal minimum distance, and null
\* for a type without instrument.
C2_ClosestFirstSeen ==
    (match_pc = "done" /\ AllStrikesNumeric(m_instruments)) =>
        \A t \in {"call", "put"} :
            LET idx == OfType(m_instruments, t)
            IN  IF idx = {} THEN m_result[t] = None
                ELSE /\ m_result[t] # None
                     /\ \E i \in idx :
                          /\ m_instruments[i].instrument_name = m_result[t][1]
                          /\ \A j \in idx :
                               /\ Distance(m_instruments, i, m_strike)
                                    <= Distance(m_instruments, j, m_strike)
                               /\ Distance(m_instruments, j, m_strike)
                                    = Distance(m_instruments, i, m_strike)
                                      => i <= j

\* C2 witness: two calls at equal minimum distance on either side of the
\* target, the earlier one returned, and no put in the catalogue.
C2_Witness ==
    /\ match_pc = "done"
    /\ AllStrikesNumeric(m_instruments)
    /\ OfType(m_instruments, "put") = {}
    /\ m_result.put = None
    /\ \E i, j \in OfType(m_instruments, "call") :
         /\ i < j
         /\ m_instruments[i].strike.val < m_strike
         /\ m_instruments[j].strike.val > m_strike
         /\ Distance(m_instruments, i, m_strike) = Distance(m_instruments, j, m_strike)
         /\ \A k \in OfType(m_instruments, "call") :
              Distance(m_instruments, i, m_strike) <= Distance(m_instruments, k, m_strike)
         /\ m_result.call = Some(m_instruments[i].instrument_name)

\* C3: an instrument whose strike is missing or non-numeric is skipped: it
\* is never returned as the closest call or put, and the result is the one
\* the scan gives without it.
C3_MalformedStrikeSkipped ==
    match_pc = "done" =>
        /\ \A t \in {"call", "put"} :
             m_result[t] # None =>
               \A i \in 1..Len(m_instruments) :
                 m_instruments[i].instrument_name = m_result[t][1]
                   => IsFloatStrike(m_instruments[i])
        /\ m_result
             = get_call_put_instruments(SelectSeq(m_instruments, IsFloatStrike), m_strike)

\* C4: when the exchange answers a request with a response carrying an
\* error field, the record written for that strike and side is a failure
\* record whose error annotation carries the exchange's error message.
C4_ErrorMessageSurfaced ==
    (pc = "store" /\ response # None /\ HasKey(response[1], "error")) =>
        /\ HasKey(entry[1], "error")
        /\ entry[1].computed_mark = None
        /\ entry[1].error[2] = response[1].error.message

Requested == {strikes[i] : i \in 1..Len(strikes)}
SnapshotSaved == pc = "loop" /\ saved > 0
IsFailure(e) == HasKey(e, "error") /\ e.error[1] = "Failed to fetch data: "

\* C5: the snapshot saved for a cycle holds exactly one entry for every
\* requested strike and each of the two sides, whatever requests failed and
\* whatever the pricing gave; a failed request yields, for its instrument, a
\* record with computed_mark null and an error annotation, and an entry
\* with an error annotation has no computed mark.
C5_SnapshotComplete ==
    /\ SnapshotSaved =>
         /\ DOMAIN output = Requested
         /\ \A k \in Requested :
              /\ DOMAIN output[k] = {"call", "put"}
              /\ \A t \in {"call", "put"} :
                   /\ HasKey(output[k][t], "computed_mark")
                   /\ HasKey(output[k][t], "error") => output[k][t].computed_mark = None
    /\ (pc = "store" /\ response # None) =>
         /\ IsFailure(entry[1])
         /\ entry[1].computed_mark = None
         /\ entry[1].instrument = inst_name[1]

\* C5 witness: a saved snapshot in which the call of one strike is a failure
\* record and the put of a later strike is priced.
C5_Witness ==
    /\ SnapshotSaved
    /\ \E k1, k2 \in DOMAIN output :
         /\ k1 < k2
         /\ IsFailure(output[k1]["call"])
         /\ output[k2]["put"].computed_mark # None

\* What the claims about task 2 speak of: a row's assets with a non-missing
\* cell, whether it qualifies, and its score under a metric.
ValidAssets(row) == {c \in CryptoSet : row.cells[c] # 0 /\ ~IsNaN(row.cells[c])}
Qualifies(row) == Cardinality(ValidAssets(row)) > 2
ScoreOf(m, row) ==
    CASE m = "std" -> nanvar(Valuations(row))
      [] m = "mad" -> nanmad(Valuations(row))
      [] m = "minmax" -> nanspread(Valuations(row))
IsRowOf(result, row) ==
    /\ result.timestamp = row.timestamp
    /\ \A c \in CryptoSet :
         result.prices[c] = IF c \in ValidAssets(row)
                              THEN Some(row.cells[c] * AMOUNTS[c]) ELSE None
ValuationSum(row) == SumOver([c \in ValidAssets(row) |-> row.cells[c] * AMOUNTS[c]],
                             ValidAssets(row))

\* C6: once both sources have a result under the same metric, run_analysis
\* ends without raising and its best is the result with the lower score,
\* a score of exactly 0 included.
C6_LowerScoreReported ==
    (result_test # None /\ result_main # None /\ run_pc # "compare") =>
        /\ run_pc = "done"
        /\ best \in {result_test, result_main}
        /\ best[1][method] <= result_test[1][method]
        /\ best[1][method] <= result_main[1][method]

\* C7: under each metric the best match is a row of the table with more than
\* 2 assets of non-missing valuation.
C7_BestRowQualifies ==
    (run_pc = "done" /\ result_main # None) =>
        /\ Cardinality({c \in CryptoSet : result_main[1].prices[c] # None}) > 2
        /\ \E k \in 1..Len(df_main[1]) :
             Qualifies(df_main[1][k]) /\ IsRowOf(result_main[1], df_main[1][k])

\* A row of exactly 2 assets, equally valued, is passed over for a qualifying
\* row of positive score.
C7_Witness ==
    /\ run_pc = "done"
    /\ result_main[1][method] > 0
    /\ \E k \in 1..Len(df_main[1]) :
         /\ Cardinality(ValidAssets(df_main[1][k])) = 2
         /\ ScoreOf(method, df_main[1][k])[1] = 0

\* The best match is a qualifying row no qualifying row scores below, the
\* earliest of those that score the same.
SelectsFirstMinimum(result, table, m) ==
    \E k \in 1..Len(table) :
        /\ Qualifies(table[k]) /\ IsRowOf(result, table[k])
        /\ \A j \in 1..Len(table) :
             Qualifies(table[j]) =>
                /\ ~Less(ScoreOf(m, table[j]), ScoreOf(m, table[k]))
                /\ table[j].timestamp < table[k].timestamp =>
                     Less(ScoreOf(m, table[k]), ScoreOf(m, table[j]))
MeanOfBest(result, table) ==
    LET row == table[CHOOSE k \in 1..Len(table) : IsRowOf(result, table[k])]
    IN  <<ValuationSum(row), Cardinality(ValidAssets(row))>>

\* C8 as stated: the best match is the first qualifying row of minimum score
\* and its price_usd is the mean of the row's non-missing valuations.
C8_PriceIsMean ==
    (run_pc = "done" /\ result_main # None) =>
        /\ SelectsFirstMinimum(result_main[1], df_main[1], method)
        /\ LET mean == MeanOfBest(result_main[1], df_main[1])
           IN  result_main[1].price_usd * mean[2] = mean[1]

\* C8: the best match is the first qualifying row of minimum score and its
\* price_usd is the mean of the row's non-missing valuations rounded to 6
\* decimal places: within half a millionth of the mean.
C8_PriceIsRoundedMean ==
    (run_pc = "done" /\ result_main # None) =>
        /\ SelectsFirstMinimum(result_main[1], df_main[1], method)
        /\ LET mean == MeanOfBest(result_main[1], df_main[1])
           IN  2 * Abs(result_main[1].price_usd * mean[2] - mean[1]) <= mean[2]

\* Two qualifying rows share the minimum score, the earlier is the best
\* match, and its mean is not a whole number of millionths.
C8_Witness ==
    /\ run_pc = "done"
    /\ \E j, k \in 1..Len(df_main[1]) :
         /\ j < k /\ Qualifies(df_main[1][j]) /\ Qualifies(df_main[1][k])
         /\ IsRowOf(result_main[1], df_main[1][j])
         /\ ~Less(ScoreOf(method, df_main[1][j]), ScoreOf(method, df_main[1][k]))
         /\ ~Less(ScoreOf(method, df_main[1][k]), ScoreOf(method, df_main[1][j]))
    /\ LET mean == MeanOfBest(result_main[1], df_main[1])
       IN  mean[1] % mean[2] # 0

\* C9: when no row of the table has more than 2 valid assets, the estimator
\* raises: it returns no best match and writes no best-match file.
C9_NoQualifyingRowFails ==
    (run_pc # "estimate" /\ \A k \in 1..Len(df_main[1]) : ~Qualifies(df_main[1][k])) =>
        /\ run_pc = "raised" /\ raised = Some("ValueError")
        /\ result_main = None
        /\ files = EmptyDict

\* The estimator raised on a table that has a row of exactly 2 valid assets.
C9_Witness ==
    /\ run_pc = "raised"
    /\ \E k \in 1..Len(df_main[1]) : Cardinality(ValidAssets(df_main[1][k])) = 2

\* C10: whatever the gap-fill options, the table merge_data returns for the
\* main source has exactly one row for each timestamp of the union of the
\* assets' timestamps, in ascending order, and a cell holds the settlement
\* price the asset has at the timestamp, or 0 if it has none (PAXG cells
\* that a gap fill may have filled aside).
SettledAt(data, c) == {data[c][i][1] : i \in 1..Len(data[c])}
PriceAt(data, c, ts) == data[c][CHOOSE i \in 1..Len(data[c]) : data[c][i][1] = ts][2]
C10_OneRowPerTimestamp ==
    df_main # None =>
        LET table == df_main[1]
            data == mainnet_data[1]
            union == UNION {SettledAt(data, c) : c \in CryptoSet}
        IN  /\ {table[k].timestamp : k \in 1..Len(table)} = union
            /\ Len(table) = Cardinality(union)
            /\ \A k \in 1..(Len(table) - 1) : table[k].timestamp < table[k + 1].timestamp
            /\ \A k \in 1..Len(table) : \A c \in CryptoSet :
                 IF table[k].timestamp \in SettledAt(data, c)
                   THEN table[k].cells[c] = PriceAt(data, c, table[k].timestamp)
                   ELSE \/ table[k].cells[c] = 0
                        \/ c = "PAXG" /\ (supplement_paxg \/ supplement_paxg_from_testnet)

\* C11: gap filling changes only PAXG cells that the merge step left
\* missing: every row of a returned table is a row of the merge step with
\* the same cells of the other assets and the same PAXG cell if that held a
\* price, and no row of the merge step is lost.
SameButMissingPaxg(row, before) ==
    /\ row.timestamp = before.timestamp
    /\ \A c \in CryptoSet \ {"PAXG"} : row.cells[c] = before.cells[c]
    /\ before.cells["PAXG"] # 0 => row.cells["PAXG"] = before.cells["PAXG"]
FrameOfGapFill(table, before) ==
    /\ \A k \in 1..Len(table) :
         \E j \in 1..Len(before) : SameButMissingPaxg(table[k], before[j])
    /\ \A j \in 1..Len(before) :
         \E k \in 1..Len(table) : SameButMissingPaxg(table[k], before[j])
C11_GapFillFrame ==
    /\ df_test # None => FrameOfGapFill(df_test[1], MergeStep(testnet_data[1]))
    /\ df_main # None => FrameOfGapFill(df_main[1], MergeStep(mainnet_data[1]))

\* The main table has a PAXG cell that was filled with a price and another
\* that kept its own price although the fill offered a different one.
C11_Witness ==
    /\ df_main # None
    /\ \E k, l \in 1..Len(df_main[1]) :
         LET before == MergeStep(mainnet_data[1])
             filled == df_main[1][k]
             kept == df_main[1][l]
         IN  /\ filled.cells["PAXG"] > 0
             /\ \E j \in 1..Len(before) :
                  before[j].timestamp = filled.timestamp /\ before[j].cells["PAXG"] = 0
             /\ kept.cells["PAXG"] > 0
             /\ kept.cells["PAXG"] # filled.cells["PAXG"]
             /\ kept.date = filled.date
             /\ \E j \in 1..Len(before) :
                  before[j].timestamp = kept.timestamp
                    /\ before[j].cells["PAXG"] = kept.cells["PAXG"]

\* What float() makes of a field of the call's ticker or instrument record:
\* a number, or nothing.
TickerNumber(key, default) ==
    LET v == IF key \in DOMAIN b76_ticker THEN b76_ticker[key] ELSE default
    IN  IF v = None \/ v = Text THEN None ELSE v
ExpiryNumber ==
    IF b76_inst.expiration_timestamp \in {None, Text} THEN None
    ELSE b76_inst.expiration_timestamp
StrikeNumber ==
    IF b76_inst.strike.kind = "float" THEN Some(b76_inst.strike.val) ELSE None
SomeInputMissing ==
    None \in {TickerNumber("underlying_price", None), TickerNumber("interest_rate", Some(0)),
              TickerNumber("mark_iv", Some(0)), TickerNumber("timestamp", None),
              ExpiryNumber, StrikeNumber}
IsCallOrPut ==
    "option_type" \in DOMAIN b76_inst /\ b76_inst.option_type \in {"call", "put"}
StatedNullCase ==
    \/ SomeInputMissing
    \/ ~IsCallOrPut
    \/ TickerNumber("underlying_price", None)[1] <= 0
    \/ StrikeNumber[1] <= 0
    \/ TickerNumber("mark_iv", Some(0))[1] <= 0
ClampedT ==
    IF ExpiryNumber[1] - TickerNumber("timestamp", None)[1] > 1
      THEN ExpiryNumber[1] - TickerNumber("timestamp", None)[1] ELSE 1

PricerReturnedNull ==
    /\ black76 /\ book # None /\ fetched_ticker # None
    /\ compute_black76_mark_price(fetched_ticker[1], inst_data, 1) = None
FallBackCase == pc = "store" /\ PricerReturnedNull
FallBackMid == compute_mid_price(book[1])
\* An error record of the fall back has a cause other than the pricer: no
\* mid price to round, or the failed fetch of the exchange's mark.
ErrorHasOtherCause ==
    HasKey(entry[1], "error") =>
        \/ FallBackMid = None /\ entry[1].error[2] = RoundNoneText
        \/ FallBackMid # None /\ is_standard /\ entry[1].error[2] = KeyErrorText

\* C13 as stated: when the Black-76 pricer returns null after the order book
\* and the ticker were fetched, the recorded computed mark is the estimator's
\* mid price of that order book, and no error record comes from the pricer.
C13_MidRecorded ==
    FallBackCase =>
        /\ entry[1].computed_mark = FallBackMid
        /\ ErrorHasOtherCause

\* C13: when the Black-76 pricer returns null after the order book and the
\* ticker were fetched, the entry without error records the estimator's mid
\* price of that order book rounded to 4 decimals, and an error record comes
\* only from a null mid price or from the failed fetch of the exchange's mark,
\* with a null computed mark.
C13_RoundedMidRecorded ==
    FallBackCase =>
        /\ ErrorHasOtherCause
        /\ IF HasKey(entry[1], "error")
             THEN entry[1].computed_mark = None
             ELSE /\ FallBackMid # None
                  /\ entry[1].computed_mark # None
                  /\ entry[1].computed_mark[1] \in Round4(FallBackMid[1])

C13_Witness ==
    /\ FallBackCase
    /\ ~HasKey(entry[1], "error")
    /\ FallBackMid # None
    /\ entry[1].computed_mark # FallBackMid
    /\ entry[1].computed_mark[1] \in Round4(FallBackMid[1])

\* The estimator was called in this iteration and returned None: without
\* Black-76 after the order book, with it after the pricer returned None.
EstimatorReturnedNull ==
    /\ book # None /\ compute_mid_price(book[1]) = None
    /\ black76 => PricerReturnedNull
\* The catalogue has no instrument of the side.
NoInstrumentOf(option) ==
    \A i \in 1..Len(instruments) : instruments[i].option_type # option
\* A null price with a reason string.
NullWithReason(e) ==
    /\ e.computed_mark = None
    /\ HasKey(e, "error") /\ Len(e.error) > 0

InstrumentsOf(option) ==
    {i \in 1..Len(instruments) : instruments[i].option_type = option}
InstrumentUsed(e) ==
    InstData(instruments,
             IF HasKey(e, "instrument") THEN e.instrument ELSE e.closest_instrument)
ListedExactly(s, option) ==
    \E i \in InstrumentsOf(option) : FloatStrike(instruments[i]) = s
IsClosest(inst, s, option) ==
    /\ inst.option_type = option
    /\ \A i \in InstrumentsOf(option) :
           Abs(FloatStrike(inst) - s) <= Abs(FloatStrike(instruments[i]) - s)

Unanswered(p) ==
    {k \in 1..Len(msg_ids[p]) : ~HasKey(responses[p], msg_ids[p][k][3])}
\* A pass receives only after its last request is sent, never more messages
\* than requests, and returns after as many messages as requests, with no
\* record of an asset whose requests are all unanswered.
DrainedInOrder(p) ==
    /\ received[p] > 0 => Len(msg_ids[p]) = Len(AllRequests)
    /\ received[p] <= Len(msg_ids[p])
    /\ c_pc[p] = "returned" =>
         /\ received[p] = Len(msg_ids[p])
         /\ \A c \in CryptoSet :
              (\A k \in 1..Len(msg_ids[p]) : msg_ids[p][k][1] = c => k \in Unanswered(p))
                  => collected[p][1][c] = <<>>

\* C16: a pass issues all its requests before it receives, receives as many
\* messages as it issued requests and matches them by id, and, its requests
\* issued, it completes with a result whether or not every request is
\* answered, no failure being raised.
C16_DrainCompletes ==
    /\ [](\A p \in Passes : DrainedInOrder(p))
    /\ \A p \in Passes : (c_pc[p] = "recv") ~> (c_pc[p] = "returned")

\* The records of a returned pass come from the exchange of its own
\* connection, out of the messages the pass itself received.
OwnRecords(p) ==
    collected[p] # None =>
        /\ collected[p][1] = Grouped(AllRecords(msg_ids[p], responses[p]))
        /\ \A c \in CryptoSet : \A k \in 1..Len(collected[p][1][c]) :
               collected[p][1][c][k][2] = SettlePrice(p)
HasRecords(data) == \E c \in CryptoSet : data[c] # <<>>

\* C17: under every interleaving of the two passes, the result of a pass
\* holds only records received on its own connection, and merge_data starts
\* only when both passes have returned, on the two results as they returned
\* them.
C17_IsolatedThenJoined ==
    /\ \A p \in Passes : OwnRecords(p)
    /\ gathered # None <=> g_pc = "merge"
    /\ g_pc = "merge" =>
         /\ \A p \in Passes : c_pc[p] = "returned"
         /\ gathered[1].testnet_data = collected[TRUE][1]
         /\ gathered[1].mainnet_data = collected[FALSE][1]

C17_Witness ==
    /\ g_pc = "merge"
    /\ HasRecords(gathered[1].testnet_data)
    /\ HasRecords(gathered[1].mainnet_data)
    /\ gathered[1].testnet_data # gathered[1].mainnet_data

\* The request of the call the program waits in, if it waits in one.
RequestOfCall ==
    IF pc = "book" THEN <<OrderBookMsg(inst_name[1])>>
    ELSE IF pc = "ticker" THEN <<TickerMsg(inst_name[1])>>
    ELSE IF pc = "mark" THEN <<MarkPriceMsg(inst_name[1])>>
    ELSE <<>>
\* A step of the client: the requests on the connection are the one of the
\* waiting call, a new request goes out only when none is left unanswered,
\* and what the call takes is the answer to its own request (by its id when
\* the answer is kept, by its kind when the result is).
OneOutstandingStep ==
    /\ sent = RequestOfCall /\ Len(sent') <= 1
    /\ pc \in {"book", "ticker", "mark"} /\ sent' # sent =>
         /\ response' # None => response'[1].id = sent[1].id
         /\ pc = "book" /\ book' # None => book'[1] \in ExchangeBooks
         /\ pc = "ticker" /\ fetched_ticker' # None => fetched_ticker'[1] \in ExchangeTickers

\* C18: the client has at most one request outstanding: every request is
\* answered before the next is sent, and the answer a call takes is the
\* answer to the request it sent, the ids not being compared.
C18_OneOutstanding == [][OneOutstandingStep]_vars

C18_Witness ==
    /\ pc = "mark" /\ black76
    /\ sent = <<MarkPriceMsg(inst_name[1])>>
    /\ book # None /\ fetched_ticker # None

====
